---- MODULE Spec2Model ----
(***************************************************************************)
(* Model of the signalk-openweather-provider plugin: the polling scheduler *)
(* (pollWeatherData and its timers), the fetch gateway (OpenWeather        *)
(* fetchObservations / fetchData) and the response cache (WCache).         *)
(*                                                                         *)
(* The repository holds two revisions of the scheduler:                    *)
(*   rev = "ws" : src/src/weather/weather-service.ts (two retry counters,  *)
(*                one-shot retry timers, watchdog in the setInterval       *)
(*                callback, interval armed after a successful fetch);      *)
(*   rev = "p3" : src/unnamed/part_003 (one errorCount, delayed start,     *)
(*                watchdog at the top of pollWeatherData, handleError).    *)
(* Definitions with the suffix P3 model part_003, the others model         *)
(* weather-service.ts.  Time is in milliseconds, as in the source.         *)
(***************************************************************************)
EXTENDS Integers, Sequences, FiniteSets, TLC

\* ------------------------------------------------------------------ bounds
\* first clock reading (Date.now() is far beyond 2 * fetchInterval)
StartTime == 10000000
\* length of the observed time window, in ms
Horizon == 250000
\* number of plugin starts the host performs
MaxStarts == 1
\* the runs of on-demand requests: number of one-minute steps
MaxGatewayTicks == 3
\* a poll interval in minutes short enough for a second poll in the window
\* (initWeather takes any number; the schema's enum is not enforced)
ShortPoll == 2
\* the window of the runs in which on-demand requests meet the scheduler
SharedHorizon == 130000
LifeHorizon == 62000
LossHorizon == 10000
ConfigHorizon == 10000
MaxCount == 2
MaxRecords == 3
\* the largest precipitation amount of a provider record (mm)
MaxAmount == 2
RestartHorizon == 70000
RestartStarts == 2
\* the window of the runs in which the remote service recovers, and the
\* time until which it may fail
LiveHorizon == 190000
FailUntil == 40000
\* the window of the runs in which the error counters reach their maximum
BudgetHorizon == 310000
\* timer handles alive at the same time
MaxTimers == 3
\* gateway requests in flight at the same time
MaxFlights == 2
\* on-demand requests the host issues
MaxDemands == 2
\* changes of the vessel position the host reports
MaxMoves == 2
\* waits for the remote service that end between two timer deadlines
MaxLatencySteps == 1
\* ------------------------------------------------- program constants
wakeInterval == 60000
watchdogFloor == 50000
retry_interval == 10000
retry_maxCount == 3
noPosRetry_maxCount == 12
noPosRetry_interval == 10000
errorCountMax == 5
startDelay == 3000
MinuteMs == 60000
DefaultPollMinutes == 60

\* ---------------------------------------------------------- value domains
\* a payload, message or error that is absent
None == "none"
\* handle variables: undefined / null, or a handle whose timer is gone
NoHandle == 0
Stale == -1
\* config.pollInterval that is not a number, or is missing
NaN == -1
Missing == -2
\* options.maxCount absent
NoCount == -1
\* no key (WCache.contains found nothing)
NoKey == <<>>

\* latitude / longitude in tenths of a degree
P1 == [latitude |-> 100, longitude |-> 200]
P2 == [latitude |-> 104, longitude |-> 203]
P3 == [latitude |-> 120, longitude |-> 200]
Positions == {P1, P2, P3}
VesselPositions == {P1}
\* navigation.position not known to the host
NoPosition == [latitude |-> 9999, longitude |-> 9999]

\* remote responses: A, B carry `current`; Empty has no `current`;
\* Bad has a `current` without `weather` (the translation throws)
Payloads == {"A", "B", "Empty", "Bad"}
Failures == {"transport", "cod"}
Outcomes == Payloads \cup Failures

PollIntervals == {ShortPoll, NaN}
Configs == [enable : BOOLEAN, pollInterval : PollIntervals]

\* options.maxCount of an on-demand request (None: absent)
DemandMaxCounts == {NoCount}
\* the step in which the latency of a remote call is measured
LatencyStep == 10000
\* what the remote service answers to the scheduler's calls
SchedOutcomes == {"A", "Empty", "transport"}

\* the run of absent positions is counted up to here
AbsentCap == noPosRetry_maxCount + 2
\* the remote calls of a retry sequence are counted up to here
CallCap == retry_maxCount + 2

TimerIds == 1..MaxTimers
FlightIds == 1..MaxFlights

VARIABLES
  rev,          \* which revision of the scheduler is loaded
  config,       \* settings.weather handed to initWeather
  hostUp,       \* plugin started by the host and not yet stopped
  starts,       \* number of plugin starts so far
  now,          \* Date.now()
  position,     \* server.getSelfPath('navigation.position')
  fetchInterval,
  lastWake,     \* 0 stands for undefined / 0 (both falsy, both not > 0)
  lastFetch,    \* 0 stands for undefined
  timer,        \* handle variable: NoHandle, Stale or a timer id
  retryTimer,   \* handle variable: NoHandle, Stale or a timer id
  intervals,    \* live setInterval timers [id, due], in the order armed
  timeouts,     \* live setTimeout timers [id, due, kind], in the order armed
  retry,        \* retry.count
  noPosRetry,   \* noPosRetry.count
  errorCount,   \* part_003 errorCount
  flights,      \* gateway requests awaiting the remote service or the cache
  cache,        \* WCache entries by key
  maxAge,       \* WCache.maxAge
  demands,      \* number of on-demand requests issued so far
  moves,        \* number of position changes so far
  waits,        \* number of latency steps so far
  absent,       \* consecutive position requests answered with no position
  sinceWake,    \* scheduler remote calls since the last periodic wake, start or success
  okAt,         \* when the latest successful scheduler call of this run started (0: none)
  response,     \* the precipitation fields of the provider response being translated
  weather,      \* the precipitation of the translated observation and forecast
  pluginError,  \* last message given to server.setPluginError
  ev            \* what the last step did (observation only)

vars == <<rev, config, hostUp, starts, now, position, fetchInterval, lastWake,
          lastFetch, timer, retryTimer, intervals, timeouts, retry,
          noPosRetry, errorCount, flights, cache, maxAge, demands,
          moves, waits, absent, sinceWake, okAt, response, weather, pluginError, ev>>

\* ------------------------------------------------------------------ cache
\* WCache.calcId: the spatial cell of a position (cell = one degree)
CellSize == 10
calcId(p) == <<p.latitude \div CellSize, p.longitude \div CellSize>>
Keys == {calcId(p) : p \in Positions}
NoEntry == [payload |-> None, fetchedAt |-> 0]
EmptyCache == [k \in Keys |-> NoEntry]

\* WCache.contains: the entry id when an entry exists and is fresh
FreshInclusive(c, age, k, t) ==
  /\ c[k] # NoEntry
  /\ age # NaN
  /\ age # Missing
  /\ t - c[k].fetchedAt <= age * MinuteMs
Fresh(c, age, k, t) ==
  /\ c[k] # NoEntry
  /\ age # NaN
  /\ age # Missing
  /\ t - c[k].fetchedAt < age * MinuteMs
contains(c, age, p, t) == IF Fresh(c, age, calcId(p), t) THEN calcId(p) ELSE NoKey
\* WCache.getEntry
getEntry(c, k) == c[k].payload
\* WCache.setEntry
setEntry(c, k, payload, t) == [c EXCEPT ![k] = [payload |-> payload, fetchedAt |-> t]]


\* -------------------------------------------------- timers and handles
Range(seq) == {seq[i] : i \in DOMAIN seq}
LiveIds(s) == {t.id : t \in Range(s.intervals)} \cup {t.id : t \in Range(s.timeouts)}
FreshId(s) == CHOOSE i \in TimerIds \ LiveIds(s) :
                \A j \in TimerIds \ LiveIds(s) : i <= j
\* clearInterval / clearTimeout: a falsy or dead handle clears nothing
Without(seq, h) == SelectSeq(seq, LAMBDA t : t.id # h)
clearInterval(s, h) == [s EXCEPT !.intervals = Without(@, h)]
clearTimeout(s, h) == [s EXCEPT !.timeouts = Without(@, h)]
\* setInterval(cb, wakeInterval), the handle stored in `timer`
setInterval(s) ==
  [s EXCEPT !.timer = FreshId(s),
            !.intervals = Append(@, [id |-> FreshId(s), due |-> now + wakeInterval])]
\* setTimeout(cb, delay), the handle stored in `retryTimer`
setRetryTimeout(s, delay, kind) ==
  [s EXCEPT !.retryTimer = FreshId(s),
            !.timeouts = Append(@, [id |-> FreshId(s), due |-> now + delay, kind |-> kind])]
\* setTimeout(cb, 3000) of part_003 initWeather: the handle is not kept
setStartTimeout(s) ==
  [s EXCEPT !.timeouts = Append(@, [id |-> FreshId(s), due |-> now + startDelay, kind |-> "start"])]
\* a handle whose timer is gone is still truthy but refers to nothing
NormHandle(h, s) == IF h \in TimerIds /\ h \notin LiveIds(s) THEN Stale ELSE h

\* ------------------------------------------------------------- flights
FreshFlight(fs) == CHOOSE i \in FlightIds \ {f.id : f \in fs} :
                     \A j \in FlightIds \ {f.id : f \in fs} : i <= j
\* the scheduler's call fetchObservations(pos.value, undefined, true):
\* bypassCache is true, so fetchData issues the remote call
SchedFlightCached(s, p) ==
  [id |-> FreshFlight(s.flights), origin |-> "sched", pos |-> p, at |-> now,
   bypass |-> TRUE, hit |-> contains(cache, maxAge, p, now) # NoKey,
   stage |-> IF contains(cache, maxAge, p, now) # NoKey THEN "get" ELSE "remote",
   calls |-> IF contains(cache, maxAge, p, now) # NoKey THEN 0 ELSE 1,
   maxCount |-> NoCount]
SchedFlight(s, p) ==
  [id |-> FreshFlight(s.flights), origin |-> "sched", pos |-> p, at |-> now,
   bypass |-> TRUE, hit |-> contains(cache, maxAge, p, now) # NoKey,
   stage |-> "remote", calls |-> 1, maxCount |-> NoCount]

\* ------------------------------------------------------ scheduler state
NoResult == [ok |-> FALSE, obs |-> <<>>, error |-> None]
NoDone == [origin |-> None, pos |-> NoPosition, at |-> 0, ok |-> FALSE, hit |-> FALSE,
           error |-> None, owData |-> None]
NoReply == [pos |-> NoPosition, hit |-> FALSE, calls |-> 0, maxCount |-> NoCount,
            owData |-> None, result |-> NoResult]
NoFlags == [posReq |-> FALSE, remote |-> FALSE, delta |-> NoPosition, trip |-> FALSE,
            giveUp |-> FALSE, noPosGiveUp |-> FALSE, skip |-> FALSE,
            reports |-> 0, done |-> NoDone, reply |-> NoReply, fid |-> 0]
S == [fetchInterval |-> fetchInterval, absent |-> absent, lastWake |-> lastWake, lastFetch |-> lastFetch, timer |-> timer,
      retryTimer |-> retryTimer, intervals |-> intervals, timeouts |-> timeouts,
      retry |-> retry, noPosRetry |-> noPosRetry, errorCount |-> errorCount,
      flights |-> flights, pluginError |-> pluginError, fl |-> NoFlags]

\* server.setPluginError(msg)
setPluginError(s, msg) ==
  [s EXCEPT !.pluginError = msg, !.fl.reports = @ + 1]

Commit(s, op) ==
  /\ fetchInterval' = s.fetchInterval
  /\ absent' = s.absent
  /\ sinceWake' = LET c == IF s.fl.remote THEN 1 ELSE 0 IN
                  IF op \in {"start", "startTimer", "wake"} THEN c
                  ELSE IF op = "done" /\ s.fl.done.ok THEN 0
                  ELSE IF sinceWake + c < CallCap THEN sinceWake + c ELSE CallCap
  /\ okAt' = IF op = "start" THEN 0
             ELSE IF op = "done" /\ s.fl.done.ok THEN s.fl.done.at
             ELSE okAt
  /\ UNCHANGED <<response, weather>>
  /\ lastWake' = s.lastWake
  /\ lastFetch' = s.lastFetch
  /\ timer' = NormHandle(s.timer, s)
  /\ retryTimer' = NormHandle(s.retryTimer, s)
  /\ intervals' = s.intervals
  /\ timeouts' = s.timeouts
  /\ retry' = s.retry
  /\ noPosRetry' = s.noPosRetry
  /\ errorCount' = s.errorCount
  /\ flights' = s.flights
  /\ pluginError' = s.pluginError
  /\ ev' = [op |-> op, up |-> hostUp] @@ s.fl

\* --------------------------------------- weather-service.ts scheduler
\* stopWeather
stopWeather(s) ==
  [clearTimeout(clearInterval(s, s.timer), s.retryTimer)
     EXCEPT !.lastFetch = s.fetchInterval - 1]

\* pollWeatherData up to its await
\* server.getSelfPath('navigation.position'), with the run of absences
getSelfPath(s) ==
  [s EXCEPT !.fl.posReq = TRUE,
            !.absent = IF position = NoPosition
                       THEN (IF @ < AbsentCap THEN @ + 1 ELSE @)
                       ELSE 0]

pollWeatherDataNoFloor(s) ==
  LET s0 == getSelfPath(s) IN
  IF position = NoPosition
  THEN IF s0.noPosRetry >= noPosRetry_maxCount
       THEN [s0 EXCEPT !.fl.noPosGiveUp = TRUE]
       ELSE setRetryTimeout([s0 EXCEPT !.noPosRetry = @ + 1],
                            noPosRetry_interval, "noPos")
  ELSE LET s1 == clearTimeout([s0 EXCEPT !.noPosRetry = 0], s0.retryTimer) IN
       IF s1.retry < retry_maxCount
       THEN [s1 EXCEPT !.retry = @ + 1,
                       !.flights = @ \cup {SchedFlight(s1, position)},
                       !.fl.remote = TRUE]
       ELSE [s1 EXCEPT !.retry = 0, !.fl.giveUp = TRUE]
pollWeatherData(s) ==
  LET s0 == getSelfPath(s) IN
  IF position = NoPosition
  THEN IF s0.noPosRetry >= noPosRetry_maxCount
       THEN [s0 EXCEPT !.fl.noPosGiveUp = TRUE]
       ELSE setRetryTimeout([s0 EXCEPT !.noPosRetry = @ + 1],
                            noPosRetry_interval, "noPos")
  ELSE LET s1 == clearTimeout([s0 EXCEPT !.noPosRetry = 0], s0.retryTimer) IN
       IF s1.lastFetch # 0 /\ now - s1.lastFetch < s1.fetchInterval
       THEN [s1 EXCEPT !.fl.skip = TRUE]
       ELSE IF s1.retry < retry_maxCount
            THEN [s1 EXCEPT !.retry = @ + 1,
                            !.flights = @ \cup {SchedFlight(s1, position)},
                            !.fl.remote = TRUE]
            ELSE [s1 EXCEPT !.retry = 0, !.fl.giveUp = TRUE]

\* the setInterval callback armed by pollWeatherData: watchdog, then poll
wakeCallbackSilent(s) ==
  LET dt == now - s.lastWake
      s1 == IF dt >= watchdogFloor
            THEN s
            ELSE [clearInterval(s, s.timer) EXCEPT !.fl.trip = TRUE]
  IN pollWeatherData([s1 EXCEPT !.lastWake = now])
wakeCallback(s) ==
  LET dt == now - s.lastWake
      s1 == IF dt >= watchdogFloor
            THEN s
            ELSE [setPluginError(clearInterval(s, s.timer),
                                 "Weather watch timer error!")
                    EXCEPT !.fl.trip = TRUE]
  IN pollWeatherData([s1 EXCEPT !.lastWake = now])

\* pollWeatherData after its await: r is what fetchObservations gave
pollContinue(s, f, r) ==
  IF r.ok
  THEN LET s1 == [s EXCEPT !.retry = 0, !.lastFetch = now, !.lastWake = now] IN
       IF r.obs = <<>>
       THEN \* emitMeteoDeltas reads obs[0].date of undefined: throws
            setRetryTimeout(s1, retry_interval, "fetch")
       ELSE setInterval([s1 EXCEPT !.fl.delta = f.pos])
  ELSE setRetryTimeout(s, retry_interval, "fetch")

\* --------------------------------------------------- part_003 scheduler
stopWeatherP3(s) ==
  [clearInterval(s, s.timer)
     EXCEPT !.timer = NoHandle, !.lastFetch = s.fetchInterval - 1, !.lastWake = 0]

handleErrorP3(s) ==
  LET s1 == [s EXCEPT !.errorCount = @ + 1] IN
  IF s1.errorCount >= errorCountMax
  THEN [stopWeatherP3(s1) EXCEPT !.fl.giveUp = TRUE]
  ELSE s1

pollWeatherDataP3(s) ==
  IF s.lastWake > 0 /\ now - s.lastWake < wakeInterval - 10000
  THEN [setPluginError(stopWeatherP3(s), "Weather timer stopped by watchdog!")
          EXCEPT !.fl.trip = TRUE]
  ELSE LET s1 == getSelfPath([s EXCEPT !.lastWake = now]) IN
       IF position = NoPosition
       THEN handleErrorP3(s1)
       ELSE IF s1.lastFetch # 0 /\ now - s1.lastFetch < s1.fetchInterval
            THEN [s1 EXCEPT !.fl.skip = TRUE]
            ELSE IF s1.errorCount < errorCountMax
                 THEN [s1 EXCEPT !.flights = @ \cup {SchedFlight(s1, position)},
                                 !.fl.remote = TRUE]
                 ELSE s1

\* the .then / .catch handlers of pollWeatherData
pollContinueP3(s, f, r) ==
  IF r.ok
  THEN LET s1 == [s EXCEPT !.errorCount = 0, !.lastFetch = now, !.lastWake = now] IN
       IF r.obs = <<>>
       THEN setPluginError(handleErrorP3(s1), "TypeError")
       ELSE [s1 EXCEPT !.fl.delta = f.pos]
  ELSE setPluginError(handleErrorP3(s), "Error fetching / parsing weather data!")


\* ------------------------------------------------------------- gateway
\* parseOWObservations: no `current` gives no record, a `current` without
\* `weather` throws, otherwise one translated observation
ParseThrows(owData) == owData = "Bad"
parseOWObservations(owData) ==
  IF owData \in {"A", "B"}
  THEN <<[type |-> "observation", source |-> owData]>>
  ELSE <<>>
\* obs.slice(0, n)
slice(seq, n) == SubSeq(seq, 1, IF n < Len(seq) THEN n ELSE Len(seq))
\* options?.maxCount ? obs.slice(0, options.maxCount) : obs   (0 is falsy)
truncate(obs, maxCount) ==
  IF maxCount # NoCount /\ maxCount # 0 THEN slice(obs, maxCount) ELSE obs

\* fetchData after its awaits: o is what the remote service answered
fetchDataOk(o) == o \in Payloads
fetchDataCacheSkip(c, p, o, t) == c
fetchDataCacheAlways(c, p, o, t) ==
  setEntry(c, calcId(p), IF fetchDataOk(o) THEN o ELSE None, t)
fetchDataCacheCreateOnly(c, p, o, t) ==
  IF fetchDataOk(o) /\ c[calcId(p)] = NoEntry THEN setEntry(c, calcId(p), o, t) ELSE c
fetchDataCacheSwapped(c, p, o, t) ==
  IF fetchDataOk(o)
  THEN setEntry(c, calcId([latitude |-> p.longitude, longitude |-> p.latitude]), o, t)
  ELSE c
fetchDataCache(c, p, o, t) ==
  IF fetchDataOk(o) THEN setEntry(c, calcId(p), o, t) ELSE c

\* fetchObservations from the translation on: the value or the failure
fetchObservationsResult(owData, maxCount) ==
  IF ParseThrows(owData)
  THEN [ok |-> FALSE, obs |-> <<>>, error |-> "Error fetching / parsing weather data!"]
  ELSE [ok |-> TRUE, obs |-> truncate(parseOWObservations(owData), maxCount),
        error |-> None]
fetchObservationsRemote(o, maxCount) ==
  IF fetchDataOk(o)
  THEN fetchObservationsResult(o, maxCount)
  ELSE [ok |-> FALSE, obs |-> <<>>, error |-> "Error fetching / parsing weather data!"]

\* fetchObservations up to its first await: cache or remote service
fetchObservationsCacheOnly(fs, p, maxCount, bypassCache) ==
  LET entryId == contains(cache, maxAge, p, now) IN
  [id |-> FreshFlight(fs), origin |-> "demand", pos |-> p, at |-> 0,
   bypass |-> bypassCache, hit |-> entryId # NoKey,
   stage |-> IF bypassCache THEN "remote" ELSE "get",
   calls |-> IF bypassCache THEN 1 ELSE 0,
   maxCount |-> maxCount]
fetchObservations(fs, p, maxCount, bypassCache) ==
  LET entryId == contains(cache, maxAge, p, now) IN
  [id |-> FreshFlight(fs), origin |-> "demand", pos |-> p, at |-> 0,
   bypass |-> bypassCache, hit |-> entryId # NoKey,
   stage |-> IF bypassCache \/ entryId = NoKey THEN "remote" ELSE "get",
   calls |-> IF bypassCache \/ entryId = NoKey THEN 1 ELSE 0,
   maxCount |-> maxCount]

\* getObservationData: one generic error for every failure
getObservationDataRaw(r) == r
getObservationData(r) ==
  IF r.ok THEN r ELSE [r EXCEPT !.error = "Error fetching observation data from provider!"]

\* the three provider methods; fetchForecasts and fetchWarnings have the
\* shape of fetchObservations, getForecastData and getWarnings that of
\* getObservationData, each with its own fixed message
Queries == {"observations", "forecasts", "warnings"}
fetchQuery(q, o) ==
  IF fetchDataOk(o) /\ ~ParseThrows(o)
  THEN [ok |-> TRUE, error |-> None]
  ELSE [ok |-> FALSE,
        error |-> IF q = "forecasts"
                  THEN "Error fetching / parsing weather data from provider!"
                  ELSE "Error fetching / parsing weather data!"]
getQuery(q, r) ==
  IF r.ok THEN r
  ELSE [r EXCEPT !.error = IF q = "warnings"
                           THEN "Error fetching weather warnings from provider!"
                           ELSE "Error fetching observation data from provider!"]

\* ------------------------------------------------------- precipitation
\* a `rain` or `snow` field of a provider record: undefined, null, or an
\* object whose '1h' entry is undefined, null or an amount
Undefined == -1
Null == -2
OWRecords ==
  LET fields == [kind : {"undefined", "null"}, h1 : {Undefined}]
                  \cup [kind : {"object"}, h1 : {Undefined, Null} \cup (0 .. MaxAmount)]
  IN [rain : fields, snow : fields]
NoPrecipitation == [type |-> None, volume |-> Undefined]
TypeError == [type |-> "TypeError", volume |-> Undefined]
NoResponse == [current |-> None, hourly |-> None]
NoWeather == [observation |-> None, forecast |-> None]

\* parseOWObservations: typeof current.rain !== 'undefined' lets null pass,
\* and null['1h'] throws; the snow test is guarded by `current.snow &&`
precipitationObsSnowFirst(current) ==
  IF current.snow.kind = "object" /\ current.snow.h1 # Undefined
  THEN [type |-> "snow", volume |-> current.snow.h1]
  ELSE IF current.rain.kind = "null"
  THEN TypeError
  ELSE IF current.rain.kind = "object" /\ current.rain.h1 # Undefined
  THEN [type |-> "rain", volume |-> current.rain.h1]
  ELSE NoPrecipitation
precipitationObs(current) ==
  IF current.rain.kind = "null"
  THEN TypeError
  ELSE IF current.rain.kind = "object" /\ current.rain.h1 # Undefined
  THEN [type |-> "rain", volume |-> current.rain.h1]
  ELSE IF current.snow.kind = "object" /\ current.snow.h1 # Undefined
  THEN [type |-> "snow", volume |-> current.snow.h1]
  ELSE NoPrecipitation

\* parseOWForecasts: `f.rain &&` and `f.snow &&` guard both tests; the
\* volume is f.rain['1h'] ?? null
precipitationForecast(f) ==
  IF f.rain.kind = "object" /\ f.rain.h1 # Undefined
  THEN [type |-> "rain", volume |-> f.rain.h1]
  ELSE IF f.snow.kind = "object" /\ f.snow.h1 # Undefined
  THEN [type |-> "snow", volume |-> f.snow.h1]
  ELSE NoPrecipitation

\* ---------------------------------------------------------------- init
\* fetchInterval = (config.pollInterval ?? 60) * 60000, NaN gives one hour
initFetchIntervalNoFallback(cfg) ==
  IF cfg.pollInterval = NaN THEN NaN
  ELSE IF cfg.pollInterval = Missing THEN DefaultPollMinutes * 60000
  ELSE cfg.pollInterval * 60000
initFetchInterval(cfg) ==
  IF cfg.pollInterval = NaN THEN 60 * 60000
  ELSE IF cfg.pollInterval = Missing THEN DefaultPollMinutes * 60000
  ELSE cfg.pollInterval * 60000

initWeatherAlways(s) ==
  pollWeatherData([s EXCEPT !.fetchInterval = initFetchInterval(config)])
initWeather(s) ==
  LET s1 == [s EXCEPT !.fetchInterval = initFetchInterval(config)] IN
  IF config.enable THEN pollWeatherData(s1) ELSE s1

initWeatherP3(s) ==
  LET s1 == [s EXCEPT !.errorCount = 0, !.fetchInterval = initFetchInterval(config)] IN
  IF config.enable /\ s1.timer = NoHandle THEN setStartTimeout(s1) ELSE s1

InitOf(configs) ==
  /\ rev \in {"ws", "p3"}
  /\ config \in configs
  /\ hostUp = FALSE
  /\ starts = 0
  /\ now = StartTime
  /\ position \in {NoPosition} \cup VesselPositions
  /\ fetchInterval = 3600000
  /\ lastWake = 0
  /\ lastFetch = 0
  /\ timer = NoHandle
  /\ retryTimer = NoHandle
  /\ intervals = <<>>
  /\ timeouts = <<>>
  /\ retry = 0
  /\ noPosRetry = 0
  /\ errorCount = 0
  /\ flights = {}
  /\ cache = EmptyCache
  /\ maxAge = Missing
  /\ demands = 0
  /\ moves = 0
  /\ waits = 0
  /\ absent = 0
  /\ sinceWake = 0
  /\ okAt = 0
  /\ response = NoResponse
  /\ weather = NoWeather
  /\ pluginError = None
  /\ ev = [op |-> "init", up |-> FALSE] @@ NoFlags
Init == InitOf(Configs)

\* ------------------------------------------------------------- actions
TimerRoom == Len(intervals) + Len(timeouts) < MaxTimers
\* timers of one delay that are due together run in the order armed
TimerClass(t) == IF t.kind = "start" THEN "start" ELSE "retry"
TimeoutTurn(i) ==
  /\ timeouts[i].due <= now
  /\ \A j \in 1..(i - 1) :
       TimerClass(timeouts[j]) = TimerClass(timeouts[i]) => timeouts[j].due > now
IntervalTurn(i) ==
  /\ intervals[i].due <= now
  /\ \A j \in 1..(i - 1) : intervals[j].due > now
FlightRoom == Cardinality(flights) < MaxFlights

\* plugin.start -> doStartup -> initWeather
HostStart(maxStarts) ==
  /\ ~hostUp
  /\ starts < maxStarts
  /\ TimerRoom /\ FlightRoom
  /\ hostUp' = TRUE
  /\ starts' = starts + 1
  /\ maxAge' = config.pollInterval
  /\ cache' \in {cache, EmptyCache}
  /\ Commit(IF rev = "ws" THEN initWeather(S) ELSE initWeatherP3(S), "start")
  /\ UNCHANGED <<rev, config, now, position, demands, moves, waits>>

\* plugin.stop -> doShutdown -> stopWeather
HostStop ==
  /\ hostUp
  /\ hostUp' = FALSE
  /\ Commit(IF rev = "ws" THEN stopWeather(S) ELSE stopWeatherP3(S), "stop")
  /\ UNCHANGED <<rev, config, starts, now, position, cache, maxAge, demands, moves, waits>>

\* the host learns or loses the vessel position
HostPosition(maxMoves) ==
  /\ \E p \in {NoPosition} \cup VesselPositions :
       /\ p # position
       /\ position' = p
  /\ moves < maxMoves
  /\ moves' = moves + 1
  /\ ev' = [op |-> "position", up |-> hostUp] @@ NoFlags
  /\ UNCHANGED <<rev, config, hostUp, starts, now, fetchInterval, lastWake,
                 lastFetch, timer, retryTimer, intervals, timeouts, retry,
                 noPosRetry, errorCount, flights, cache, maxAge, demands,
                 waits, absent, sinceWake, okAt, response, weather, pluginError>>

\* a one-shot timer fires: retry timers call pollWeatherData, the delayed
\* start of part_003 arms the interval and polls
TimeoutFire ==
  /\ TimerRoom /\ FlightRoom
  /\ \E i \in DOMAIN timeouts :
       /\ TimeoutTurn(i)
       /\ LET t == timeouts[i]
              s0 == [S EXCEPT !.timeouts = Without(@, t.id)] IN
          IF t.kind = "start"
          THEN Commit(pollWeatherDataP3(setInterval(s0)), "startTimer")
          ELSE Commit(pollWeatherData(s0), "retry")
  /\ UNCHANGED <<rev, config, hostUp, starts, now, position, cache, maxAge, demands, moves, waits>>

\* a periodic timer fires
IntervalFire ==
  /\ TimerRoom /\ FlightRoom
  /\ \E i \in DOMAIN intervals :
       /\ IntervalTurn(i)
       /\ LET t == intervals[i]
              s0 == [S EXCEPT !.intervals =
                       Append(Without(@, t.id), [id |-> t.id, due |-> now + wakeInterval])] IN
          Commit(IF rev = "ws" THEN wakeCallback(s0) ELSE pollWeatherDataP3(s0), "wake")
  /\ UNCHANGED <<rev, config, hostUp, starts, now, position, cache, maxAge, demands, moves, waits>>


\* getObservationData after its await: the provider method hands the
\* result or the generic error to its caller and touches nothing else
demandContinueShared(s, f, o, r) ==
  [s EXCEPT !.lastFetch = IF r.ok THEN now ELSE @,
            !.fl.reply =
               [pos |-> f.pos, hit |-> f.hit, calls |-> f.calls,
                maxCount |-> f.maxCount,
                owData |-> IF fetchDataOk(o) THEN o ELSE None,
                result |-> getObservationData(r)]]
demandContinue(s, f, o, r) ==
  [s EXCEPT !.fl.reply =
               [pos |-> f.pos, hit |-> f.hit, calls |-> f.calls,
                maxCount |-> f.maxCount,
                owData |-> IF fetchDataOk(o) THEN o ELSE None,
                result |-> getObservationData(r)]]

\* the remote service answers a pending request with outcome o: fetchData
\* stores a good payload, fetchObservations translates it, and the caller
\* (the scheduler's continuation or the on-demand query) gets the result
FetchDone(origins, outcomes) ==
  /\ TimerRoom
  /\ \E f \in flights, o \in outcomes :
       /\ f.stage = "remote"
       /\ f.origin \in origins
       /\ cache' = fetchDataCache(cache, f.pos, o, now)
       /\ LET r == fetchObservationsRemote(o, f.maxCount)
              s0 == [S EXCEPT !.flights = @ \ {f},
                              !.fl.fid = f.id,
                              !.fl.done = [origin |-> f.origin, pos |-> f.pos, at |-> f.at,
                                           ok |-> r.ok, hit |-> f.hit,
                                           error |-> r.error,
                                           owData |-> IF fetchDataOk(o) THEN o
                                                      ELSE None]]
          IN IF f.origin = "sched"
             THEN Commit(IF rev = "ws" THEN pollContinue(s0, f, r)
                                       ELSE pollContinueP3(s0, f, r), "done")
             ELSE Commit(demandContinue(s0, f, o, r), "reply")
  /\ UNCHANGED <<rev, config, hostUp, starts, now, position, maxAge, demands, moves, waits>>

\* an on-demand getObservations(position, options) arrives
DemandStartWith(maxDemands, maxCounts) ==
  /\ starts > 0
  /\ demands < maxDemands
  /\ FlightRoom
  /\ demands' = demands + 1
  /\ \E p \in Positions, mc \in maxCounts :
       Commit([S EXCEPT !.flights = @ \cup {fetchObservations(flights, p, mc, FALSE)},
                        !.fl.fid = FreshFlight(flights)],
              "demand")
  /\ UNCHANGED <<rev, config, hostUp, starts, now, position, cache, maxAge, moves, waits>>

DemandStart(maxDemands) == DemandStartWith(maxDemands, DemandMaxCounts)

\* the cache answers an on-demand request that had a fresh entry
DemandGet ==
  /\ \E f \in flights :
       /\ f.stage = "get"
       /\ LET owData == getEntry(cache, calcId(f.pos))
              r == fetchObservationsResult(owData, f.maxCount)
          IN Commit([S EXCEPT !.flights = @ \ {f},
                              !.fl.fid = f.id,
                              !.fl.reply =
                                [pos |-> f.pos, hit |-> f.hit, calls |-> f.calls,
                                 maxCount |-> f.maxCount, owData |-> owData,
                                 result |-> getObservationData(r)]], "reply")
  /\ UNCHANGED <<rev, config, hostUp, starts, now, position, cache, maxAge, demands, moves, waits>>

\* time passes, never beyond a timer that is due
Dues == {t.due : t \in Range(intervals)} \cup {t.due : t \in Range(timeouts)}
\* to the next timer; in smaller steps while a remote call is pending; in
\* whole wake intervals while the plugin is stopped and may be started again
SchedSteps(maxWaits, maxStarts) ==
  {d - now : d \in Dues}
    \cup (IF flights # {} /\ waits < maxWaits THEN {LatencyStep} ELSE {})
    \cup (IF ~hostUp /\ starts > 0 /\ starts < maxStarts /\ waits < maxWaits
          THEN {wakeInterval} ELSE {})
Advance(steps, horizon) ==
  /\ \E d \in steps :
       /\ d > 0
       /\ now + d <= StartTime + horizon
       /\ \A due \in Dues : now + d <= due
       /\ now' = now + d
       /\ waits' = IF now + d \notin Dues THEN waits + 1 ELSE waits
  /\ ev' = [op |-> "advance", up |-> hostUp] @@ NoFlags
  /\ UNCHANGED <<rev, config, hostUp, starts, position, fetchInterval, lastWake,
                 lastFetch, timer, retryTimer, intervals, timeouts, retry,
                 noPosRetry, errorCount, flights, cache, maxAge, demands,
                 moves, absent, sinceWake, okAt, response, weather, pluginError>>

SchedFetchDone == FetchDone({"sched"}, SchedOutcomes)

\* one run of the scheduler of either revision: start, timers, remote
\* answers, position changes and a stop
Start == HostStart(MaxStarts)
Move == HostPosition(MaxMoves)
Tick == Advance(SchedSteps(MaxLatencySteps, MaxStarts), Horizon)
Next ==
  \/ Start
  \/ HostStop
  \/ Move
  \/ TimeoutFire
  \/ IntervalFire
  \/ SchedFetchDone
  \/ Tick

InitSched ==
  /\ Init
  /\ config.pollInterval # NaN
Spec == InitSched /\ [][Next]_vars

\* one run of the scheduler that the host does not stop
NextRun ==
  \/ Start
  \/ Move
  \/ TimeoutFire
  \/ IntervalFire
  \/ SchedFetchDone
  \/ Tick

SpecRun == InitSched /\ [][NextRun]_vars

\* the gateway and the cache under on-demand requests, polling disabled
InitGateway ==
  /\ Init
  /\ ~config.enable
  /\ rev = "ws"
GatewayStart == HostStart(MaxStarts)
Demand == DemandStart(MaxDemands)
GatewayFetchDone == FetchDone({"demand"}, Outcomes)
GatewayTick == Advance(IF waits < MaxGatewayTicks THEN {MinuteMs} ELSE {},
                       MaxGatewayTicks * MinuteMs)
NextGateway ==
  \/ GatewayStart
  \/ Demand
  \/ DemandGet
  \/ GatewayFetchDone
  \/ GatewayTick

SpecGateway == InitGateway /\ [][NextGateway]_vars

\* the scheduler and on-demand requests side by side on one cache
SharedOutcomes == {"A", "B", "transport"}
InitShared ==
  /\ InitSched
  /\ config.enable
  /\ position # NoPosition
SharedFetchDone == FetchDone({"sched", "demand"}, SharedOutcomes)
SharedTick == Advance(SchedSteps(0, MaxStarts), SharedHorizon)
NextShared ==
  \/ Start
  \/ TimeoutFire
  \/ IntervalFire
  \/ SharedFetchDone
  \/ Demand
  \/ DemandGet
  \/ SharedTick

SpecShared == InitShared /\ [][NextShared]_vars

\* the start of the scheduler under every poll interval the settings can
\* hold: the values of the schema, none, and one that is not a number
SchemaPollIntervals == {15, 30, 60}
AllConfigs == [enable : BOOLEAN,
               pollInterval : SchemaPollIntervals \cup {ShortPoll, Missing, NaN}]
InitConfig == InitOf(AllConfigs)
ConfigTick == Advance(SchedSteps(0, MaxStarts), ConfigHorizon)
NextConfig ==
  \/ Start
  \/ TimeoutFire
  \/ SchedFetchDone
  \/ ConfigTick

SpecConfig == InitConfig /\ [][NextConfig]_vars

\* the gateway with a cache whose maxAge is zero, negative or positive
NegativePoll == -3
InitZero ==
  /\ InitOf([enable : {FALSE}, pollInterval : {0, NegativePoll, ShortPoll}])
  /\ rev = "ws"
SpecZero == InitZero /\ [][NextGateway]_vars

\* on-demand requests that carry options.maxCount, polling disabled
QueryMaxCounts == {NoCount} \cup (0 .. MaxCount)
CountDemand == DemandStartWith(MaxDemands, QueryMaxCounts)
CountFetchDone == FetchDone({"demand"}, {"A", "Empty", "transport"})
NextCount ==
  \/ GatewayStart
  \/ CountDemand
  \/ DemandGet
  \/ CountFetchDone
  \/ GatewayTick

SpecCount == InitGateway /\ [][NextCount]_vars

\* the cache losing entries (the store is best effort) under the scheduler
\* and on-demand requests
CacheLoss ==
  /\ \E k \in Keys :
       /\ cache[k] # NoEntry
       /\ cache' = [cache EXCEPT ![k] = NoEntry]
  /\ ev' = [op |-> "loss", up |-> hostUp] @@ NoFlags
  /\ UNCHANGED <<rev, config, hostUp, starts, now, position, fetchInterval,
                 lastWake, lastFetch, timer, retryTimer, intervals, timeouts,
                 retry, noPosRetry, errorCount, flights, maxAge, demands,
                 moves, waits, absent, sinceWake, okAt, response, weather, pluginError>>
InitLoss ==
  /\ InitShared
  /\ rev = "ws"
LossTick == Advance(SchedSteps(0, MaxStarts), LossHorizon)
NextLoss ==
  \/ Start
  \/ TimeoutFire
  \/ SharedFetchDone
  \/ Demand
  \/ DemandGet
  \/ CacheLoss
  \/ LossTick

SpecLoss == InitLoss /\ [][NextLoss]_vars

\* the scheduler stopped and started again by the host
InitRestart ==
  /\ InitSched
  /\ config.enable
  /\ position # NoPosition
Restart == HostStart(RestartStarts)
RestartTick == Advance(SchedSteps(MaxLatencySteps, RestartStarts), RestartHorizon)
NextRestart ==
  \/ Restart
  \/ HostStop
  \/ TimeoutFire
  \/ IntervalFire
  \/ SchedFetchDone
  \/ RestartTick

SpecRestart == InitRestart /\ [][NextRestart]_vars

\* on-demand requests in every state of the plugin: polling enabled or
\* disabled, started or stopped
LifeOutcomes == {"A", "transport"}
InitLife ==
  /\ InitSched
  /\ rev = "ws"
  /\ position # NoPosition
LifeFetchDone == FetchDone({"sched", "demand"}, LifeOutcomes)
LifeTick == Advance(SchedSteps(0, MaxStarts), LifeHorizon)
NextLife ==
  \/ Start
  \/ HostStop
  \/ TimeoutFire
  \/ IntervalFire
  \/ LifeFetchDone
  \/ Demand
  \/ DemandGet
  \/ LifeTick

SpecLife == InitLife /\ [][NextLife]_vars


\* a run of the scheduler that the host does not stop, with the position
\* known and a remote service that may fail until FailUntil and answers
\* every call successfully from then on. Timers that are due fire, pending
\* calls are answered and time passes: the event loop runs every callback
\* that is ready.
LiveOutcomes == IF now < StartTime + FailUntil THEN {"A", "transport"} ELSE {"A"}
LiveFetchDone == FetchDone({"sched"}, LiveOutcomes)
LiveTick == Advance(SchedSteps(MaxLatencySteps, MaxStarts), LiveHorizon)
NextLive ==
  \/ Start
  \/ TimeoutFire
  \/ IntervalFire
  \/ LiveFetchDone
  \/ LiveTick
SpecLive ==
  /\ InitShared
  /\ [][NextLive]_vars
  /\ WF_vars(Start)
  /\ WF_vars(TimeoutFire)
  /\ WF_vars(IntervalFire)
  /\ WF_vars(LiveFetchDone)
  /\ WF_vars(LiveTick)

\* a run of the scheduler long enough for errorCountMax periodic wakes,
\* with the position known and a remote service that answers or fails
BudgetFetchDone == FetchDone({"sched"}, LifeOutcomes)
BudgetTick == Advance(SchedSteps(MaxLatencySteps, MaxStarts), BudgetHorizon)
NextBudget ==
  \/ Start
  \/ TimeoutFire
  \/ IntervalFire
  \/ BudgetFetchDone
  \/ BudgetTick
SpecBudget == InitShared /\ [][NextBudget]_vars

\* the plugin of either revision with polling disabled: starts, stops and
\* on-demand requests
DisabledFetchDone == FetchDone({"demand"}, LifeOutcomes)
DisabledTick == Advance(IF waits < MaxLatencySteps THEN {MinuteMs} ELSE {}, Horizon)
NextDisabled ==
  \/ Start
  \/ HostStop
  \/ Demand
  \/ DemandGet
  \/ DisabledFetchDone
  \/ DisabledTick
SpecDisabled ==
  /\ InitOf([enable : {FALSE}, pollInterval : {ShortPoll}])
  /\ [][NextDisabled]_vars

\* the translation of a provider response: `current` by
\* parseOWObservations and a record of `hourly` by parseOWForecasts
Translate ==
  /\ ev.op # "translate"
  /\ \E c \in OWRecords, f \in OWRecords :
       /\ response' = [current |-> c, hourly |-> f]
       /\ weather' = [observation |-> precipitationObs(c),
                      forecast |-> precipitationForecast(f)]
  /\ ev' = [op |-> "translate", up |-> hostUp] @@ NoFlags
  /\ UNCHANGED <<rev, config, hostUp, starts, now, position, fetchInterval, lastWake,
                 lastFetch, timer, retryTimer, intervals, timeouts, retry,
                 noPosRetry, errorCount, flights, cache, maxAge, demands,
                 moves, waits, absent, sinceWake, okAt, pluginError>>
SpecTranslate == InitGateway /\ [][Translate]_vars

\* ---------------------------------------------------------------- claims
SchedFlights == {f \in flights : f.origin = "sched"}

\* C1: single-flight scheduler: at most one scheduler-initiated remote
\* fetch is in flight in every reachable state, so a wake tick that arrives
\* while a scheduler fetch is pending starts no second remote call.
C1_SingleFlight == Cardinality(SchedFlights) <= 1


RetryTimers == {t \in Range(timeouts) : t.kind # "start"}

\* C2: watchdog trip halts cleanly: when the periodic wake fires with less
\* than the watchdog threshold elapsed since lastWake, every periodic and
\* one-shot timer is cancelled and that tick requests no position and
\* starts no remote call.
C2_WatchdogHalts ==
  (ev.op = "wake" /\ ev.trip) =>
    /\ intervals = <<>>
    /\ timeouts = <<>>
    /\ ~ev.posReq
    /\ ~ev.remote

\* C3: after stop no wake, retry or delayed-start callback runs until the
\* next start, whatever was armed or in flight when stop was called.
C3_NoCallbackAfterStop ==
  ev.op \in {"wake", "retry", "startTimer"} => ev.up

\* C4: a scheduler fetch that completes while the plugin is stopped is
\* discarded: no delta, no timer armed, timestamps and counters unchanged.
C4_DiscardAfterStop ==
  [][(ev'.op = "done" /\ ~hostUp) =>
       /\ ev'.delta = NoPosition
       /\ UNCHANGED <<intervals, timeouts, lastFetch, lastWake, retry,
                      noPosRetry, errorCount>>]_vars

\* the budget of fetch errors was used up by failed fetches alone
FetchGiveUp == ev.giveUp /\ moves = 0 /\ position # NoPosition

\* C5: retry exhaustion resets: once the budget of consecutive failed
\* scheduler fetches is used up, the fetch-error counter is back at zero
\* and no one-shot retry timer is pending.
C5_ExhaustionResets ==
  FetchGiveUp => (retry = 0 /\ errorCount = 0 /\ RetryTimers = {})

\* C6: exhausting the fetch retry budget is not fatal: the plugin being
\* started, the scheduler still has its periodic wake timer armed.
C6_ExhaustionNotFatal ==
  (FetchGiveUp /\ hostUp) => intervals # <<>>

\* C7: no-position give-up: when the scheduler gives up after the run of
\* absent positions, no retry timer is pending, so nothing but an external
\* wake requests the position again.
C7_NoPositionGiveUp ==
  (rev = "ws" /\ ev.noPosGiveUp) => RetryTimers = {}

\* a run of pollWeatherData that finds a position while less than
\* fetchInterval has passed since the last successful fetch
FloorWake ==
  /\ ev'.op \in {"start", "wake", "retry", "startTimer"}
  /\ ev'.posReq
  /\ position # NoPosition
  /\ lastFetch # 0
  /\ now - lastFetch < fetchInterval'

\* C8 as stated: on a wake inside the fetch interval the scheduler makes no
\* remote call, changes none of the retry counters and publishes no delta.
C8_FloorNoOp ==
  [][FloorWake =>
       /\ ~ev'.remote
       /\ flights' = flights
       /\ ev'.delta = NoPosition
       /\ UNCHANGED <<retry, errorCount, noPosRetry>>]_vars

\* C8: fetch-interval floor: on a wake inside the fetch interval the
\* scheduler makes no remote call, publishes no delta and leaves the
\* fetch-error counters alone; the no-position counter is reset to zero.
C8_FloorSkips ==
  [][FloorWake =>
       /\ ~ev'.remote
       /\ flights' = flights
       /\ ev'.delta = NoPosition
       /\ UNCHANGED <<retry, errorCount>>
       /\ noPosRetry' = 0]_vars

C8_Witness == ev.skip /\ ev.posReq /\ ev.op = "retry" /\ rev = "ws"

\* the request that the last step started or answered
DemandFlight == CHOOSE f \in flights : f.id = ev.fid
DemandEntry == cache[calcId(DemandFlight.pos)]

\* C9: freshness boundary: a lookup finds the entry of the position's key
\* exactly when the entry exists and its age is below maxAge; at an age of
\* maxAge or more it finds nothing and the request goes to the remote
\* service.
C9_FreshnessBoundary ==
  ev.op = "demand" =>
    /\ DemandFlight.hit <=>
          /\ DemandEntry # NoEntry
          /\ maxAge \notin {NaN, Missing}
          /\ now - DemandEntry.fetchedAt < maxAge * MinuteMs
    /\ DemandFlight.stage = (IF DemandFlight.hit THEN "get" ELSE "remote")

C9_Witness ==
  /\ ev.op = "demand"
  /\ DemandEntry # NoEntry
  /\ maxAge \notin {NaN, Missing}
  /\ now - DemandEntry.fetchedAt = maxAge * MinuteMs
  /\ ~DemandFlight.hit

\* C10: a request without bypass that hits returns the stored payload and
\* makes no remote call; one that misses makes exactly one remote call and,
\* when that call succeeds, the cache holds the new payload under the
\* position's key when the payload is returned.
C10_ResolveThroughCache ==
  ev.op = "reply" =>
    IF ev.reply.hit
    THEN /\ ev.reply.calls = 0
         /\ ev.reply.owData = cache[calcId(ev.reply.pos)].payload
    ELSE /\ ev.reply.calls = 1
         /\ ev.reply.owData # None =>
              cache[calcId(ev.reply.pos)] =
                [payload |-> ev.reply.owData, fetchedAt |-> now]

C10_Witness ==
  /\ ev.op = "reply"
  /\ ~ev.reply.hit
  /\ ev.reply.owData = "B"
  /\ demands = MaxDemands

\* C11: bypass always refreshes: a request with bypassCache = true goes to
\* the remote service even when a fresh entry exists, and when the remote
\* service answers with a payload the cache holds that payload, stamped
\* now, as the one entry of the position's key.
C11_BypassRefreshes ==
  /\ \A f \in flights : f.bypass => (f.stage = "remote" /\ f.calls = 1)
  /\ (ev.op = "done" /\ ev.done.owData # None) =>
        cache[calcId(ev.done.pos)] =
          [payload |-> ev.done.owData, fetchedAt |-> now]

C11_Witness ==
  /\ ev.op = "done"
  /\ ev.done.hit
  /\ ev.done.owData = "B"

\* the requested position lies in the cell of the vessel position
SameCell(p, q) ==
  /\ p.latitude \div CellSize = q.latitude \div CellSize
  /\ p.longitude \div CellSize = q.longitude \div CellSize

\* C12: every remote call that succeeds, the scheduler's or an on-demand
\* one, puts its payload into the cache; so an on-demand request for a
\* position in the cell of the vessel, made less than maxAge after the last
\* successful scheduler poll, is answered from the cache without a remote
\* call.
C12_PollFeedsCache ==
  /\ (ev.op \in {"done", "reply"} /\ ev.done.owData # None) =>
        cache[calcId(ev.done.pos)] =
          [payload |-> ev.done.owData, fetchedAt |-> now]
  /\ ( /\ ev.op = "demand"
       /\ lastFetch # 0
       /\ SameCell(DemandFlight.pos, position)
       /\ now - lastFetch < maxAge * MinuteMs ) =>
        /\ DemandFlight.hit
        /\ DemandFlight.stage = "get"
        /\ DemandFlight.calls = 0

C12_Witness ==
  /\ ev.op = "demand"
  /\ lastFetch # 0
  /\ now > lastFetch
  /\ DemandFlight.pos # position
  /\ SameCell(DemandFlight.pos, position)
  /\ DemandFlight.hit
  /\ demands = 1

\* C13: the cache's maxAge and the scheduler's fetchInterval are the same
\* duration: a lookup finds an existing entry exactly when its age is below
\* fetchInterval, for every configured pollInterval.
C13_SameThreshold ==
  (ev.op = "demand" /\ DemandEntry # NoEntry) =>
    (DemandFlight.hit <=> now - DemandEntry.fetchedAt < fetchInterval)

\* a remote call has just failed (transport error or error-coded answer)
RemoteFailed == ev.op \in {"done", "reply"} /\ ev.done.origin # None /\ ev.done.owData = None

\* C14: a failed remote call leaves the cache unchanged: no entry is
\* created or overwritten, and a stored entry keeps its payload and its
\* fetchedAt.
C14_FailureKeepsCache ==
  [][RemoteFailed' => cache' = cache]_vars

C14_Witness ==
  /\ RemoteFailed
  /\ cache[calcId(ev.done.pos)] # NoEntry
  /\ cache[calcId(ev.done.pos)].fetchedAt < now

\* C15: failure normalization: whatever made a request fail (transport
\* error, error-coded answer, payload that cannot be translated), the
\* gateway fails with one and the same error, and the on-demand query fails
\* with its one generic error and returns no data.
C15_OneFailureKind ==
  /\ (ev.op \in {"done", "reply"} /\ ev.done.origin # None /\ ~ev.done.ok) =>
        ev.done.error = "Error fetching / parsing weather data!"
  /\ ev.op = "reply" =>
        /\ ev.reply.result.ok <=>
              (ev.reply.owData # None /\ ~ParseThrows(ev.reply.owData))
        /\ IF ev.reply.result.ok
           THEN ev.reply.result.error = None
           ELSE /\ ev.reply.result.obs = <<>>
                /\ ev.reply.result.error =
                     "Error fetching observation data from provider!"
  /\ \A q \in Queries : \A o1, o2 \in Outcomes :
        LET r1 == getQuery(q, fetchQuery(q, o1))
            r2 == getQuery(q, fetchQuery(q, o2))
        IN (~r1.ok /\ ~r2.ok) =>
             /\ r1.error = r2.error
             /\ fetchQuery(q, o1).error = fetchQuery(q, o2).error

C15_Witness ==
  /\ ev.op = "reply"
  /\ ev.reply.owData = "Bad"
  /\ ev.reply.hit
  /\ ~ev.reply.result.ok

\* C16: at most one periodic wake timer is armed at any time, whatever the
\* sequence of starts, successful fetches, give-ups, stops and restarts.
C16_OneWakeTimer == Len(intervals) <= 1

\* C17: exactly one delta per successful scheduler poll and none otherwise:
\* a scheduler fetch that records the time of the last fetch publishes one
\* delta carrying the position it used, and no other step (failed fetch,
\* wake without a position, wake skipped by the interval) publishes one.
C17_OneDeltaPerPoll ==
  /\ (ev.op = "done" /\ ev.done.origin = "sched" /\ ev.done.ok /\ lastFetch = now) =>
        ev.delta = ev.done.pos
  /\ ev.delta # NoPosition =>
        (ev.op = "done" /\ ev.done.origin = "sched" /\ ev.done.ok /\ lastFetch = now)

\* C18: concurrent lookups and puts on one key are atomic: every stored
\* entry is one complete put (payload and time written together), a request
\* answered from the cache gets the complete payload the cache holds at
\* that moment (the old entry or the new one), and once a put has completed
\* the cache holds that put, whatever other requests are pending.
C18_AtomicPerKey ==
  /\ \A k \in DOMAIN cache :
        \/ cache[k] = NoEntry
        \/ (cache[k].payload \in Payloads /\ cache[k].fetchedAt \in StartTime..now)
  /\ (ev.op = "reply" /\ ev.reply.calls = 0) =>
        /\ ev.reply.owData \in Payloads
        /\ ev.reply.owData = cache[calcId(ev.reply.pos)].payload
  /\ (ev.op \in {"done", "reply"} /\ ev.done.owData # None) =>
        cache[calcId(ev.done.pos)] =
           [payload |-> ev.done.owData, fetchedAt |-> now]

\* a put lands while a request that already found the old entry has not
\* yet read it
C18_Witness ==
  /\ ev.op = "done"
  /\ ev.done.owData = "B"
  /\ \E f \in flights : f.stage = "get" /\ calcId(f.pos) = calcId(ev.done.pos)

\* C19: separate retry policies: a wake that finds no position changes
\* only the no-position counter, never the fetch-error counter, and a
\* failed fetch changes only the fetch-error counter.
NoPositionWake ==
  ev.op \in {"retry", "startTimer", "wake"} /\ ev.posReq /\ position = NoPosition
FailedFetch == ev.op = "done" /\ ~ev.done.ok
C19_SeparateCounters ==
  [][/\ NoPositionWake' => (retry' = retry /\ errorCount' = errorCount)
     /\ FailedFetch' => noPosRetry' = noPosRetry]_vars

\* C20: when a wake finds a position, the no-position counter is zero and
\* no no-position retry timer is left pending, so that no stale no-position
\* retry can fire afterwards.
C20_PositionCancelsRetry ==
  (rev = "ws" /\ ev.posReq /\ position # NoPosition) =>
     /\ noPosRetry = 0
     /\ \A i \in DOMAIN timeouts : timeouts[i].kind # "noPos"

\* C21: each retry counter never decreases except by a reset to zero, and
\* it is reset only on leaving its retry loop: a successful fetch or a
\* give-up for the fetch counter, a present position for the no-position
\* counter; every such exit leaves the counter at zero.
FetchSucceeded == ev.op = "done" /\ ev.done.origin = "sched" /\ ev.done.ok
PositionFound == ev.posReq /\ position # NoPosition
C21_CounterResets ==
  [][/\ retry' < retry => (retry' = 0 /\ (FetchSucceeded' \/ ev'.giveUp))
     /\ errorCount' < errorCount =>
           (errorCount' = 0 /\ (FetchSucceeded' \/ ev'.giveUp))
     /\ noPosRetry' < noPosRetry => (noPosRetry' = 0 /\ PositionFound')
     /\ (FetchSucceeded' \/ ev'.giveUp) => (retry' = 0 /\ errorCount' = 0)
     /\ (rev = "ws" /\ PositionFound') => noPosRetry' = 0]_vars

\* C22: on-demand requests are independent of the scheduler: issuing one
\* and answering one change neither the wake and fetch timestamps, nor the
\* retry counters, nor any timer or timer handle, and their answer is what
\* the gateway alone gives; they are answered with polling disabled and
\* after a stop as well.
SchedulerState ==
  <<fetchInterval, lastWake, lastFetch, timer, retryTimer, intervals,
    timeouts, retry, noPosRetry, errorCount, pluginError>>
C22_DemandIndependent ==
  [][ev'.op \in {"demand", "reply"} =>
       /\ SchedulerState' = SchedulerState
       /\ ev'.op = "reply" =>
            ev'.reply.result =
              getObservationData(
                 IF ev'.reply.calls = 1 /\ ev'.reply.owData = None
                 THEN fetchObservationsRemote("transport", ev'.reply.maxCount)
                 ELSE fetchObservationsResult(ev'.reply.owData, ev'.reply.maxCount))]_vars

\* a request answered after the stop of a scheduler that had polled
C22_Witness ==
  /\ ev.op = "reply"
  /\ config.enable
  /\ ~hostUp
  /\ cache[calcId(position)] # NoEntry
  /\ ev.reply.pos = P3
  /\ ev.reply.calls = 1
  /\ ev.reply.result.ok

\* a request answered with polling disabled
C22_WitnessIdle ==
  /\ ev.op = "reply"
  /\ ~config.enable
  /\ ev.reply.result.ok

\* C23: stop resets the timestamps: after a stop followed by a start, the
\* first wake that sees a position is neither halted by the watchdog nor
\* skipped by the fetch-interval check and contacts the remote service,
\* also when a scheduler fetch completed after the stop.
FirstWakeAfterRestart ==
  /\ starts >= 2
  /\ hostUp
  /\ ev.posReq \/ ev.trip
  /\ position # NoPosition
  /\ \/ rev = "ws" /\ ev.op = "start"
     \/ rev = "p3" /\ ev.op = "startTimer"
C23_StopResetsTimestamps ==
  FirstWakeAfterRestart => (~ev.trip /\ ~ev.skip /\ ev.remote)

\* C24: a watchdog trip is reported to the host as an error exactly once
\* per trip, with a message that is not the one reported for an ordinary
\* fetch failure or for retry exhaustion.
WatchdogMessages ==
  {"Weather watch timer error!", "Weather timer stopped by watchdog!"}
C24_TripReportedOnce ==
  /\ ev.trip => (ev.reports = 1 /\ pluginError \in WatchdogMessages)
  /\ (~ev.trip /\ ev.reports > 0) =>
        (ev.reports = 1 /\ pluginError \notin WatchdogMessages)

C24_Witness == ev.trip /\ ev.op = "wake" /\ ev.reports = 1

\* a fetch failure reported to the host after a trip had been reported
C24_WitnessFailure ==
  /\ ev.op = "done"
  /\ ~ev.done.ok
  /\ ev.reports = 1
  /\ pluginError = "Error fetching / parsing weather data!"

\* C25: key stability: the key is a function of the position alone, two
\* positions of one cell have one key and positions of different cells
\* have different keys, so that an entry put for a position is what a
\* lookup for any position of its cell finds while it is fresh.
C25_KeyStability ==
  /\ \A p, q \in Positions : SameCell(p, q) <=> calcId(p) = calcId(q)
  /\ (ev.op \in {"done", "reply"} /\ ev.done.owData # None) =>
        \A q \in Positions :
           SameCell(ev.done.pos, q) =>
              /\ getEntry(cache, calcId(q)) = ev.done.owData
              /\ (maxAge > 0) => contains(cache, maxAge, q, now) = calcId(ev.done.pos)
  /\ ev.op = "demand" =>
        (DemandFlight.hit <=>
           \E q \in Positions :
              /\ SameCell(DemandFlight.pos, q)
              /\ Fresh(cache, maxAge, calcId(q), now))

\* the scheduler put an entry for the vessel's position and a request for
\* another position of the same cell is answered from it
C25_Witness ==
  /\ ev.op = "reply"
  /\ ev.reply.pos = P2
  /\ position = P1
  /\ demands = 1
  /\ ev.reply.calls = 0
  /\ ev.reply.owData \in {"A", "B"}
  /\ ev.reply.result.ok

C26_WitnessReply ==
  /\ ev.op = "reply"
  /\ ev.reply.calls = 1
  /\ ev.reply.result.ok
  /\ demands = 2
  /\ \E g \in flights :
        g.stage = "get" /\ g.hit /\ SameCell(g.pos, ev.reply.pos)

\* C27: maxCount truncation: a query with options.maxCount = N present is
\* answered with exactly the first N records of the translated sequence,
\* all of them when there are fewer than N, in the translation's order;
\* N = 0 included.
FirstN(seq, n) == SubSeq(seq, 1, IF n < Len(seq) THEN n ELSE Len(seq))
Translated == UNION {[1..n -> {"r1", "r2"}] : n \in 0..MaxRecords}
C27_MaxCountTruncates ==
  /\ (ev.op = "reply" /\ ev.reply.result.ok /\ ev.reply.maxCount # NoCount) =>
        ev.reply.result.obs =
           FirstN(parseOWObservations(ev.reply.owData), ev.reply.maxCount)
  /\ (ev.op = "reply" /\ ev.reply.maxCount # NoCount) =>
        \A seq \in Translated :
           truncate(seq, ev.reply.maxCount) = FirstN(seq, ev.reply.maxCount)

C29_ZeroMaxAgeMisses ==
  (starts > 0 /\ config.pollInterval \in {0, NegativePoll}) =>
    /\ maxAge = config.pollInterval
    /\ \A q \in Positions : contains(cache, maxAge, q, now) = NoKey
    /\ \A f \in flights : ~f.hit /\ f.stage = "remote" /\ f.calls = 1
    /\ ev.op = "reply" => ev.reply.calls = 1

C29_Witness ==
  /\ ev.op = "demand"
  /\ maxAge = 0
  /\ cache[calcId(DemandFlight.pos)] # NoEntry
  /\ cache[calcId(DemandFlight.pos)].fetchedAt = now
  /\ DemandFlight.stage = "remote"

\* C30: at most one one-shot retry timer is pending at any time: no retry
\* timer is armed while another one is still pending, so that no handle is
\* overwritten while its timer is live.
C30_OneRetryTimer == rev = "ws" => Len(timeouts) <= 1

\* C31: bounded retry: while the remote service keeps failing, the
\* scheduler makes at most fetchMaxRetries remote calls between two
\* consecutive periodic wakes, and at most fetchMaxRetries from the start
\* to the first periodic wake.
C31_BoundedRetry == sinceWake <= retry_maxCount

\* C32: no false watchdog trip: a wake of the only periodic timer, fired at
\* its nominal deadline, never trips the watchdog, whatever the latency of
\* the scheduler fetches and whenever a fetch success updated lastWake.
C32_NoFalseTrip ==
  [][(ev'.op = "wake" /\ Len(intervals) = 1 /\ now = intervals[1].due)
       => ~ev'.trip]_vars

\* C33: within one scheduler run, two scheduler-initiated remote calls
\* that both succeed started at least fetchInterval apart, under every
\* interleaving of periodic wakes, retry wakes and slow fetches.
Apart(a, b) == a - b >= fetchInterval \/ b - a >= fetchInterval
C33_SuccessesApart ==
  [][(ev'.op = "done" /\ ev'.done.ok /\ okAt # 0 /\ okAt' # 0)
       => Apart(ev'.done.at, okAt)]_vars

\* C34: eventual delivery: with polling enabled, the scheduler started and
\* not stopped, the position always available and every remote call
\* succeeding from some point on, a weather delta is eventually published,
\* also when the remote failed fetchMaxRetries times or more before that
\* point. (The run is followed up to LiveHorizon: a run whose next timer
\* lies beyond it is not held against the claim.)
Delivered == ev.delta # NoPosition
BeyondHorizon == \E d \in Dues : d > StartTime + LiveHorizon
C34_EventualDelivery == <>(Delivered \/ BeyondHorizon)

\* C35: counters stay within their budgets: in every reachable state the
\* fetch-error counter is at most its maximum (fetchMaxRetries, or
\* errorCountMax in the single-counter scheduler) and the no-position
\* counter is at most noPositionMaxRetries, also when fetches complete
\* after a stop or several fetches fail together.
C35_CountersInBudget ==
  /\ retry <= retry_maxCount
  /\ errorCount <= errorCountMax
  /\ noPosRetry <= noPosRetry_maxCount

\* C36: a fresh start begins with clean retry state: after a stop followed
\* by a start, both retry counters are zero when the first wake of the new
\* run begins, so a run that ended in a give-up or in the middle of a
\* fetch retry does not shorten the retry budget of the next run.
C36_CleanRestart ==
  [][(/\ starts' >= 2
      /\ \/ rev = "ws" /\ ev'.op = "start"
         \/ rev = "p3" /\ ev'.op = "startTimer" /\ hostUp)
       => (retry = 0 /\ noPosRetry = 0 /\ errorCount = 0)]_vars

\* C37: with enable = false in the configuration, start arms no timer and
\* the scheduler never requests the position, never calls the remote
\* service and never publishes a delta; only on-demand requests cause
\* remote calls.
C37_DisabledIdle ==
  [][~config.enable =>
       /\ intervals' = <<>> /\ timeouts' = <<>>
       /\ ~ev'.posReq /\ ~ev'.remote /\ ev'.delta = NoPosition
       /\ \A f \in flights' : f.origin = "demand"]_vars
C37_Witness == ~config.enable /\ hostUp /\ ev.op = "start"
C37_WitnessDemand ==
  ~config.enable /\ hostUp /\ \E f \in flights : f.stage = "remote"

\* C38: precipitation tie-break: when a provider record carries both a
\* rain and a snow amount, the translated observation or forecast has
\* precipitationType 'rain' with the rain volume; 'snow' is reported only
\* when the rain amount is absent.
HasAmount(field) == field.kind = "object" /\ field.h1 \in 0 .. MaxAmount
RainFirst(rec, out) ==
  /\ (HasAmount(rec.rain) /\ HasAmount(rec.snow))
       => (out.type = "rain" /\ out.volume = rec.rain.h1)
  /\ out.type = "snow" => ~HasAmount(rec.rain)
C38_RainFirst ==
  ev.op = "translate" =>
    /\ RainFirst(response.current, weather.observation)
    /\ RainFirst(response.hourly, weather.forecast)
C38_Witness ==
  /\ ev.op = "translate"
  /\ HasAmount(response.current.rain) /\ HasAmount(response.current.snow)
  /\ response.current.rain.h1 # response.current.snow.h1
  /\ weather.observation.type = "rain"
  /\ HasAmount(response.hourly.rain) /\ HasAmount(response.hourly.snow)
  /\ response.hourly.rain.h1 # response.hourly.snow.h1
  /\ weather.forecast.type = "rain"
C38_WitnessSnow ==
  /\ ev.op = "translate"
  /\ weather.observation.type = "snow"
  /\ weather.forecast.type = "snow"

====
